---- MODULE Spec2Model ----
(***************************************************************************)
(* ImmutableList / ImmutableList$Builder of immutable-thought-experiment.  *)
(*                                                                         *)
(* Every ImmutableList and every Builder is a plain JavaScript Array.  The *)
(* model keeps a heap of arrays; a reference is the index of its array in  *)
(* the heap, so reference identity (toBe) is equality of indices.  The     *)
(* caller of the library is part of the model: it creates array literals,  *)
(* may freeze or mutate the arrays it holds, and calls the exported        *)
(* functions with any reference it holds.                                  *)
(***************************************************************************)
EXTENDS Integers, Sequences, FiniteSets, TLC

\* Memory the caller and the library can allocate, in units: an array takes
\* one unit, and one more for each of its elements.
MaxHeap == 6
\* Largest number of items passed to one call of add.
MaxItems == 2

\* Element values, the strings of the test suites.
Elems == {"one", "two"}

\* The module-level constant EMPTY_LIST lives at reference 0.
EMPTY_LIST == 0
Refs == 0..MaxHeap
\* The value of a call that returns nothing (or that threw).
undefined == -1

SeqsUpTo(n) == UNION {[1..k -> Elems] : k \in 0..n}

VARIABLES
    VERIFY_INVARIANTS,  \* the build-time flag of ImmutableList.js
    SUPPORTS_FROZEN,    \* whether the host has Object.isFrozen / Object.freeze
    heap,               \* reference -> [alloc, elems, frozen, marker]
    pc,                 \* "idle", or "addAll" while a call of addAll runs
    escaped             \* whether copyOf has handed EMPTY_LIST to the caller

vars == <<VERIFY_INVARIANTS, SUPPORTS_FROZEN, heap, pc, escaped>>

\* A slot of the heap that holds no array yet.
NoArray == [alloc |-> FALSE, elems |-> <<>>, frozen |-> FALSE, marker |-> FALSE]
\* A freshly allocated extensible array without extra properties.
ArrayOf(s) == [alloc |-> TRUE, elems |-> s, frozen |-> FALSE, marker |-> FALSE]


(***************************************************************************)
(* Host (JavaScript) primitives used by the library and by its callers.    *)
(***************************************************************************)
\* The units an array takes; EMPTY_LIST itself exists from the start.
Units(h, r) ==
    IF ~h[r].alloc THEN 0
    ELSE Len(h[r].elems) + (IF r = EMPTY_LIST THEN 0 ELSE 1)
RECURSIVE UnitsUpTo(_, _)
UnitsUpTo(h, r) == IF r < 0 THEN 0 ELSE Units(h, r) + UnitsUpTo(h, r - 1)
\* The units that can still be allocated.
Room(h) == MaxHeap - UnitsUpTo(h, MaxHeap)

\* Whether a new array of n elements can be allocated.
CanAlloc(h, n) == n + 1 <= Room(h)
\* The reference of the next array that is allocated.
Fresh(h) ==
    IF \E r \in Refs : ~h[r].alloc
    THEN CHOOSE r \in Refs : ~h[r].alloc /\ \A q \in Refs : q < r => h[q].alloc
    ELSE undefined
\* The heap with a new array of elements s at reference r.
Alloc(h, r, s) == IF r \in Refs THEN [h EXCEPT ![r] = ArrayOf(s)] ELSE h

\* Object.freeze(item): the array can no longer be changed.
ObjectFreeze(h, item) == [h EXCEPT ![item].frozen = TRUE]
\* Object.isFrozen(item)
ObjectIsFrozen(h, item) == h[item].frozen
\* item.hasOwnProperty(__FROZEN_MARKER__)
HasMarker(h, item) == h[item].marker

\* (mutant) slice that hands back the array it is called on.
slice_inPlace(h, array) == [heap |-> h, res |-> array]

\* array.slice(): a new array with the indexed elements; own properties such
\* as the marker and the frozen state are not carried over.
slice(h, array) ==
    LET r == Fresh(h)
    IN  [heap |-> Alloc(h, r, h[array].elems), res |-> r]

\* (mutant) push that inserts the items in front of the array.
push_unshift(h, array, items) ==
    IF h[array].frozen
    THEN [heap |-> h, threw |-> "TypeError"]
    ELSE [heap |-> [h EXCEPT ![array].elems = items \o @], threw |-> "none"]

\* array.push(...items): throws a TypeError on a frozen array (strict mode,
\* even for zero items because "length" is written), appends otherwise.
push(h, array, items) ==
    IF h[array].frozen
    THEN [heap |-> h, threw |-> "TypeError"]
    ELSE [heap |-> [h EXCEPT ![array].elems = @ \o items], threw |-> "none"]

(***************************************************************************)
(* ImmutableList.js                                                        *)
(***************************************************************************)
\* (mutant) _freeze that never marks.
_freeze_identity(h, item) == h

\* (mutant) _freeze that marks whatever VERIFY_INVARIANTS says.
_freeze_ignoresFlag(h, item) ==
    IF SUPPORTS_FROZEN THEN ObjectFreeze(h, item)
    ELSE [h EXCEPT ![item].marker = TRUE]

\* _freeze(item): returns item; the heap after the call.
_freeze(h, item) ==
    IF ~VERIFY_INVARIANTS THEN h
    ELSE IF SUPPORTS_FROZEN THEN ObjectFreeze(h, item)
    ELSE [h EXCEPT ![item].marker = TRUE]

\* (mutant) fromLoneReference that returns its argument unmarked.
fromLoneReference_noFreeze(h, array) ==
    [heap |-> h, res |-> array, threw |-> "none"]

\* (mutant) fromLoneReference that settles and returns a duplicate.
fromLoneReference_copies(h, array) ==
    LET c == slice(h, array)
    IN  [heap |-> _freeze(c.heap, c.res), res |-> c.res, threw |-> "none"]

fromLoneReference(h, array) ==
    [heap |-> _freeze(h, array), res |-> array, threw |-> "none"]

\* (mutant) copyOf without the branch for frozen input.
copyOf_alwaysSlices(h, array) ==
    IF Len(h[array].elems) = 0
    THEN [heap |-> h, res |-> EMPTY_LIST, threw |-> "none"]
    ELSE LET c == slice(h, array) IN fromLoneReference(c.heap, c.res)

\* (mutant) copyOf that claims its argument instead of a duplicate.
copyOf_claimsInPlace(h, array) ==
    IF Len(h[array].elems) = 0
    THEN [heap |-> h, res |-> EMPTY_LIST, threw |-> "none"]
    ELSE IF SUPPORTS_FROZEN /\ ObjectIsFrozen(h, array)
    THEN [heap |-> h, res |-> array, threw |-> "none"]
    ELSE fromLoneReference(h, array)

\* (mutant) copyOf that freezes its argument and returns the duplicate.
copyOf_sliceAfterClaim(h, array) ==
    IF Len(h[array].elems) = 0
    THEN [heap |-> h, res |-> EMPTY_LIST, threw |-> "none"]
    ELSE IF SUPPORTS_FROZEN /\ ObjectIsFrozen(h, array)
    THEN [heap |-> h, res |-> array, threw |-> "none"]
    ELSE LET f == fromLoneReference(h, array)
             c == slice(f.heap, array)
         IN  [heap |-> c.heap, res |-> c.res, threw |-> "none"]

\* (mutant) copyOf without the branch for empty input.
copyOf_noEmptyCase(h, array) ==
    IF SUPPORTS_FROZEN /\ ObjectIsFrozen(h, array)
    THEN [heap |-> h, res |-> array, threw |-> "none"]
    ELSE LET c == slice(h, array) IN fromLoneReference(c.heap, c.res)

copyOf(h, array) ==
    IF Len(h[array].elems) = 0
    THEN [heap |-> h, res |-> EMPTY_LIST, threw |-> "none"]
    ELSE IF SUPPORTS_FROZEN /\ ObjectIsFrozen(h, array)
    THEN [heap |-> h, res |-> array, threw |-> "none"]
    ELSE LET c == slice(h, array) IN fromLoneReference(c.heap, c.res)

\* (mutant) toArray that returns the list itself.
toArray_noCopy(h, list) == [heap |-> h, res |-> list, threw |-> "none"]

toArray(h, list) ==
    LET c == slice(h, list) IN [heap |-> c.heap, res |-> c.res, threw |-> "none"]

(***************************************************************************)
(* ImmutableList$Builder.js                                                *)
(***************************************************************************)
\* (mutant) newBuilder that hands out the shared empty list.
newBuilder_shared(h) == [heap |-> h, res |-> EMPTY_LIST, threw |-> "none"]

newBuilder(h) ==
    LET r == Fresh(h)
    IN  [heap |-> Alloc(h, r, <<>>), res |-> r, threw |-> "none"]

\* (mutant) newBuilderFromImmutableList that hands out the list itself.
newBuilderFromImmutableList_aliases(h, list) ==
    [heap |-> h, res |-> list, threw |-> "none"]

newBuilderFromImmutableList(h, list) ==
    LET c == slice(h, list) IN [heap |-> c.heap, res |-> c.res, threw |-> "none"]

\* (mutant) _assertNotBuilt that only knows the native check.
_assertNotBuilt_nativeOnly(h, builder) ==
    VERIFY_INVARIANTS /\ ObjectIsFrozen(h, builder)

\* (mutant) _assertNotBuilt that checks whatever VERIFY_INVARIANTS says.
_assertNotBuilt_ignoresFlag(h, builder) ==
    IF SUPPORTS_FROZEN THEN ObjectIsFrozen(h, builder)
    ELSE HasMarker(h, builder)

\* TRUE when _assertNotBuilt(builder) throws.
_assertNotBuilt(h, builder) ==
    IF ~VERIFY_INVARIANTS THEN FALSE
    ELSE IF SUPPORTS_FROZEN THEN ObjectIsFrozen(h, builder)
    ELSE HasMarker(h, builder)

\* (mutant) add that pushes only its first item.
add_firstItemOnly(h, builder, items) ==
    IF _assertNotBuilt(h, builder)
    THEN [heap |-> h, res |-> undefined, threw |-> "AlreadyBuilt"]
    ELSE LET p == push(h, builder, IF items = <<>> THEN items ELSE <<items[1]>>)
         IN  [heap |-> p.heap, res |-> undefined, threw |-> p.threw]

\* (mutant) add that settles the builder after pushing.
add_thenBuild(h, builder, items) ==
    IF _assertNotBuilt(h, builder)
    THEN [heap |-> h, res |-> undefined, threw |-> "AlreadyBuilt"]
    ELSE LET p == push(h, builder, items)
         IN  [heap |-> _freeze(p.heap, builder), res |-> undefined, threw |-> p.threw]

\* (mutant) add without the call of _assertNotBuilt.
add_unchecked(h, builder, items) ==
    LET p == push(h, builder, items)
    IN  [heap |-> p.heap, res |-> undefined, threw |-> p.threw]

\* (mutant) add that refuses a call without items.
add_rejectsNoItems(h, builder, items) ==
    IF _assertNotBuilt(h, builder)
    THEN [heap |-> h, res |-> undefined, threw |-> "AlreadyBuilt"]
    ELSE IF items = <<>>
    THEN [heap |-> h, res |-> undefined, threw |-> "TypeError"]
    ELSE LET p == push(h, builder, items)
         IN  [heap |-> p.heap, res |-> undefined, threw |-> p.threw]

add(h, builder, items) ==
    IF _assertNotBuilt(h, builder)
    THEN [heap |-> h, res |-> undefined, threw |-> "AlreadyBuilt"]
    ELSE LET p == push(h, builder, items)
         IN  [heap |-> p.heap, res |-> undefined, threw |-> p.threw]

\* The for..of loop of addAll from iterator position i on: the array iterator
\* compares i with the current length of items on every turn.  done is
\* FALSE when the loop is still running with the heap full.
RECURSIVE AddAllLoop(_, _, _, _)
AddAllLoop(h, builder, items, i) ==
    IF i >= Len(h[items].elems)
    THEN [heap |-> h, res |-> undefined, threw |-> "none", done |-> TRUE]
    ELSE LET p == push(h, builder, <<h[items].elems[i + 1]>>)
         IN  IF p.threw # "none"
             THEN [heap |-> h, res |-> undefined, threw |-> p.threw, done |-> TRUE]
             ELSE IF Room(h) = 0
             THEN [heap |-> h, res |-> undefined, threw |-> "none", done |-> FALSE]
             ELSE AddAllLoop(p.heap, builder, items, i + 1)

\* (mutant) addAll that pushes the items before it checks the builder.
addAll_pushThenCheck(h, builder, items) ==
    LET l == AddAllLoop(h, builder, items, 0)
    IN  IF _assertNotBuilt(h, builder)
        THEN [heap |-> l.heap, res |-> undefined, threw |-> "AlreadyBuilt", done |-> TRUE]
        ELSE l

addAll(h, builder, items) ==
    IF _assertNotBuilt(h, builder)
    THEN [heap |-> h, res |-> undefined, threw |-> "AlreadyBuilt", done |-> TRUE]
    ELSE AddAllLoop(h, builder, items, 0)

\* (mutant) build that returns the builder without marking it.
build_withoutFreeze(h, builder) ==
    IF _assertNotBuilt(h, builder)
    THEN [heap |-> h, res |-> undefined, threw |-> "AlreadyBuilt"]
    ELSE [heap |-> h, res |-> builder, threw |-> "none"]

\* (mutant) build that settles and returns a duplicate of the builder.
build_copies(h, builder) ==
    IF _assertNotBuilt(h, builder)
    THEN [heap |-> h, res |-> undefined, threw |-> "AlreadyBuilt"]
    ELSE LET c == slice(h, builder)
         IN  [heap |-> _freeze(c.heap, c.res), res |-> c.res, threw |-> "none"]

build(h, builder) ==
    IF _assertNotBuilt(h, builder)
    THEN [heap |-> h, res |-> undefined, threw |-> "AlreadyBuilt"]
    ELSE [heap |-> _freeze(h, builder), res |-> builder, threw |-> "none"]

(***************************************************************************)
(* The state machine: the caller and its calls into the library.           *)
(***************************************************************************)
Init ==
    /\ VERIFY_INVARIANTS \in BOOLEAN
    /\ SUPPORTS_FROZEN \in BOOLEAN
    /\ heap = [r \in Refs |->
                 IF r = EMPTY_LIST
                 THEN [ArrayOf(<<>>) EXCEPT
                         !.frozen = SUPPORTS_FROZEN /\ VERIFY_INVARIANTS]
                 ELSE NoArray]
    /\ pc = "idle"
    /\ escaped = FALSE

\* No library call is running (the code is synchronous and single-threaded).
Idle == pc = "idle"

\* The references the caller can pass: every array it created or was handed;
\* EMPTY_LIST is module-private until copyOf returns it.
Held == {r \in Refs : heap[r].alloc /\ (r # EMPTY_LIST \/ escaped)}

\* The array carries the mark of _freeze (or was frozen by the caller).
Settled(h, r) == h[r].frozen \/ h[r].marker

\* const array = [...];
CallerLiteral(s) ==
    /\ Idle
    /\ CanAlloc(heap, Len(s))
    /\ heap' = Alloc(heap, Fresh(heap), s)
    /\ UNCHANGED <<VERIFY_INVARIANTS, SUPPORTS_FROZEN, pc, escaped>>

\* Object.freeze(array) done by the caller, as in the tests.
CallerFreeze(a) ==
    /\ Idle
    /\ SUPPORTS_FROZEN
    /\ heap' = ObjectFreeze(heap, a)
    /\ UNCHANGED <<VERIFY_INVARIANTS, SUPPORTS_FROZEN, pc, escaped>>

Reverse(s) == [i \in 1..Len(s) |-> s[Len(s) + 1 - i]]

\* What one mutating Array call or index assignment can make of s.
Mutations(h, a) ==
    LET s == h[a].elems
    IN  ({Append(s, x) : x \in IF Room(h) > 0 THEN Elems ELSE {}}
           \cup {SubSeq(s, 1, Len(s) - 1) : k \in IF Len(s) > 0 THEN {0} ELSE {}}
           \cup {[s EXCEPT ![i] = x] : i \in 1..Len(s), x \in Elems}
           \cup {Reverse(s)}) \ {s}

\* The heap after the caller's mutation of a into s: a frozen array throws a
\* TypeError and stays as it is.
mutate(h, a, s) == IF h[a].frozen THEN h ELSE [h EXCEPT ![a].elems = s]

\* The caller mutates an array it holds (push, pop, array[i] = x, reverse).
CallerMutate(a, s) ==
    /\ Idle
    /\ heap' = mutate(heap, a, s)
    /\ UNCHANGED <<VERIFY_INVARIANTS, SUPPORTS_FROZEN, pc, escaped>>

CallFromLoneReference(a) ==
    LET r == fromLoneReference(heap, a)
    IN  /\ Idle
        /\ heap' = r.heap
        /\ UNCHANGED <<VERIFY_INVARIANTS, SUPPORTS_FROZEN, pc, escaped>>

\* copyOf allocates only in its last branch.
CopyOfAllocates(h, a) ==
    /\ Len(h[a].elems) # 0
    /\ ~(SUPPORTS_FROZEN /\ ObjectIsFrozen(h, a))

\* There is room for a duplicate of a.
CanSlice(h, a) == CanAlloc(h, Len(h[a].elems))

CallCopyOf(a) ==
    LET r == copyOf(heap, a)
    IN  /\ Idle
        /\ CopyOfAllocates(heap, a) => CanSlice(heap, a)
        /\ heap' = r.heap
        /\ escaped' = (escaped \/ r.res = EMPTY_LIST)
        /\ UNCHANGED <<VERIFY_INVARIANTS, SUPPORTS_FROZEN, pc>>

CallToArray(a) ==
    LET r == toArray(heap, a)
    IN  /\ Idle
        /\ CanSlice(heap, a)
        /\ heap' = r.heap
        /\ UNCHANGED <<VERIFY_INVARIANTS, SUPPORTS_FROZEN, pc, escaped>>

CallNewBuilder ==
    LET r == newBuilder(heap)
    IN  /\ Idle
        /\ CanAlloc(heap, 0)
        /\ heap' = r.heap
        /\ UNCHANGED <<VERIFY_INVARIANTS, SUPPORTS_FROZEN, pc, escaped>>

CallNewBuilderFromImmutableList(a) ==
    LET r == newBuilderFromImmutableList(heap, a)
    IN  /\ Idle
        /\ CanSlice(heap, a)
        /\ heap' = r.heap
        /\ UNCHANGED <<VERIFY_INVARIANTS, SUPPORTS_FROZEN, pc, escaped>>

\* add(builder, ...items)
CallAdd(b, items) ==
    LET r == add(heap, b, items)
    IN  /\ Idle
        /\ Len(items) <= Room(heap)
        /\ heap' = r.heap
        /\ UNCHANGED <<VERIFY_INVARIANTS, SUPPORTS_FROZEN, pc, escaped>>

\* addAll(builder, items).  When items is the builder itself and is not
\* empty the loop never ends: the call is left running.
CallAddAll(b, src) ==
    LET r == addAll(heap, b, src)
    IN  /\ Idle
        /\ b = src \/ Len(heap[src].elems) <= Room(heap)
        /\ heap' = r.heap
        /\ pc' = (IF r.done THEN "idle" ELSE "addAll")
        /\ UNCHANGED <<VERIFY_INVARIANTS, SUPPORTS_FROZEN, escaped>>

CallBuild(b) ==
    LET r == build(heap, b)
    IN  /\ Idle
        /\ heap' = r.heap
        /\ UNCHANGED <<VERIFY_INVARIANTS, SUPPORTS_FROZEN, pc, escaped>>

Next ==
    \/ \E s \in SeqsUpTo(Room(heap) - 1) : CallerLiteral(s)
    \/ \E a \in Held : CallerFreeze(a)
    \/ \E a \in Held : \E s \in Mutations(heap, a) : CallerMutate(a, s)
    \/ \E a \in Held : CallFromLoneReference(a)
    \/ \E a \in Held : CallCopyOf(a)
    \/ \E a \in Held : CallToArray(a)
    \/ CallNewBuilder
    \/ \E a \in Held : CallNewBuilderFromImmutableList(a)
    \/ \E b \in Held : \E items \in SeqsUpTo(MaxItems) : CallAdd(b, items)
    \/ \E b \in Held : \E src \in Held : CallAddAll(b, src)
    \/ \E b \in Held : CallBuild(b)

Spec == Init /\ [][Next]_vars

(***************************************************************************)
(* Properties.  A call is applied to every reference the caller holds in   *)
(* every reachable heap, provided the heap has room for what it allocates. *)
(***************************************************************************)
\* Development build on a host with Object.freeze.
Dev == VERIFY_INVARIANTS /\ SUPPORTS_FROZEN

Allocated(h) == {r \in Refs : h[r].alloc}
ItemLists == SeqsUpTo(MaxItems)

\* copyOf(a) can run in h.
CanCopyOf(h, a) == CopyOfAllocates(h, a) => CanSlice(h, a)

\* Every array but r is the same in h and g.
SameExcept(h, g, r) == \A q \in Refs : q # r => g[q] = h[q]

\* The values fromLoneReference, copyOf and build return in h are frozen.
ReturnsFrozen(h) ==
    \A a \in Allocated(h) :
        /\ LET r == fromLoneReference(h, a) IN r.heap[r.res].frozen
        /\ CanCopyOf(h, a) => LET r == copyOf(h, a) IN r.heap[r.res].frozen
        /\ LET r == build(h, a) IN r.threw = "none" => r.heap[r.res].frozen

\* No step changes the length or the elements of a frozen array, or thaws it.
FrozenStays ==
    \A r \in Refs : heap[r].alloc /\ heap[r].frozen => heap'[r] = heap[r]

\* C1: with VERIFY_INVARIANTS and native freeze, every value returned by
\* fromLoneReference, copyOf or build keeps the length and the elements it had
\* when it was returned, whatever calls follow: it is frozen when it is
\* returned, and no step of the caller or the library changes a frozen array.
C1_ReturnedValuesNeverChange ==
    /\ [](Dev => ReturnsFrozen(heap))
    /\ [][Dev => FrozenStays]_vars

\* A frozen non-empty array other than EMPTY_LIST exists, and the appends and
\* mutations tried on it leave it as it is.
C1_Witness ==
    /\ Dev
    /\ \E r \in Held \ {EMPTY_LIST} :
          /\ heap[r].frozen /\ Len(heap[r].elems) >= 2
          /\ add(heap, r, <<"one">>).heap = heap
          /\ addAll(heap, r, r).heap = heap
          /\ \A s \in Mutations(heap, r) : mutate(heap, r, s) = heap

\* build(b) leaves b settled; add and addAll on a settled b raise.
SettledRejectsAppend(h) ==
    \A b \in Allocated(h) :
        /\ LET r == build(h, b) IN r.threw = "none" => Settled(r.heap, b)
        /\ Settled(h, b) =>
              /\ \A items \in ItemLists : add(h, b, items).threw = "AlreadyBuilt"
              /\ \A src \in Allocated(h) : addAll(h, b, src).threw = "AlreadyBuilt"

\* No step removes the mark of a settled array.
SettledStays ==
    \A r \in Refs : heap[r].alloc /\ Settled(heap, r) => Settled(heap', r)

\* C2: with verification enabled, once build has returned for a builder every
\* later add (with any number of items) and addAll (with any source) on it
\* raises the already-built error: build leaves the builder settled, no step
\* unsettles it, and add and addAll raise on every settled builder.
C2_AppendAfterBuildRaises ==
    /\ [](VERIFY_INVARIANTS => SettledRejectsAppend(heap))
    /\ [][VERIFY_INVARIANTS => SettledStays]_vars

\* A builder carrying the sentinel marker (set by the library alone) is
\* refused by add and addAll, and so is an open builder right after build.
C2_Witness ==
    /\ VERIFY_INVARIANTS
    /\ \E b \in Held : /\ heap[b].marker
                       /\ add(heap, b, <<"one", "two">>).threw = "AlreadyBuilt"
                       /\ add(heap, b, <<>>).threw = "AlreadyBuilt"
                       /\ addAll(heap, b, b).threw = "AlreadyBuilt"
    /\ \E b \in Held : /\ ~Settled(heap, b)
                       /\ add(build(heap, b).heap, b, <<"one">>).threw = "AlreadyBuilt"

\* build succeeds on an open builder and raises on a settled one; new
\* builders are open and appends keep them open.
BuildOnce(h) ==
    /\ \A b \in Allocated(h) :
          /\ ~Settled(h, b) =>
                LET r == build(h, b)
                IN  /\ r.threw = "none" /\ r.res = b
                    /\ build(r.heap, b).threw = "AlreadyBuilt"
                    /\ build(r.heap, b).heap = r.heap
          /\ Settled(h, b) => build(h, b).threw = "AlreadyBuilt"
          /\ ~Settled(h, b) =>
                /\ \A items \in ItemLists : ~Settled(add(h, b, items).heap, b)
                /\ \A src \in Allocated(h) : ~Settled(addAll(h, b, src).heap, b)
          /\ CanSlice(h, b) =>
                LET n == newBuilderFromImmutableList(h, b)
                IN  ~Settled(n.heap, n.res) /\ build(n.heap, n.res).threw = "none"
    /\ CanAlloc(h, 0) =>
          LET n == newBuilder(h)
          IN  ~Settled(n.heap, n.res) /\ build(n.heap, n.res).threw = "none"

\* C3: with verification enabled, the first build of a builder succeeds and
\* every later build of it raises the already-built error.
C3_BuildAtMostOnce ==
    /\ [](VERIFY_INVARIANTS => BuildOnce(heap))
    /\ [][VERIFY_INVARIANTS => SettledStays]_vars

\* An open builder with contents whose second build raises, next to a
\* builder that carries the library's marker and is refused.
C3_Witness ==
    /\ VERIFY_INVARIANTS
    /\ \E b \in Held : /\ ~Settled(heap, b) /\ Len(heap[b].elems) >= 1
                       /\ build(heap, b).threw = "none"
                       /\ build(build(heap, b).heap, b).threw = "AlreadyBuilt"
    /\ \E b \in Held : heap[b].marker /\ build(heap, b).threw = "AlreadyBuilt"

\* copyOf(s) returned s itself and touched nothing.
ReturnsItself(h, s) == copyOf(h, s) = [heap |-> h, res |-> s, threw |-> "none"]

\* C4 as stated: for every settled s, of any length and however it was
\* settled, copyOf(s) returns s itself without copying or re-marking.
C4_SettledIsReturnedAsIs ==
    \A s \in Held : Settled(heap, s) /\ CanCopyOf(heap, s) => ReturnsItself(heap, s)

\* C4 amended: copyOf(s) returns a natively frozen, non-empty s itself and
\* changes nothing; for an empty settled s it returns EMPTY_LIST and changes
\* nothing; a non-empty s that only carries the sentinel marker is copied.
C4_FrozenNonEmptyIsReturnedAsIs ==
    \A s \in Held :
        /\ heap[s].frozen /\ Len(heap[s].elems) > 0 => ReturnsItself(heap, s)
        /\ Settled(heap, s) /\ Len(heap[s].elems) = 0 =>
              copyOf(heap, s) = [heap |-> heap, res |-> EMPTY_LIST, threw |-> "none"]
        /\ (~heap[s].frozen /\ heap[s].marker /\ Len(heap[s].elems) > 0
              /\ CanSlice(heap, s)) => copyOf(heap, s).res # s

\* A frozen array of two elements, and a frozen empty array that is not
\* EMPTY_LIST.
C4_Witness ==
    /\ \E s \in Held : heap[s].frozen /\ Len(heap[s].elems) = 2
                       /\ copyOf(heap, s).res = s
    /\ \E s \in Held \ {EMPTY_LIST} :
          heap[s].frozen /\ Len(heap[s].elems) = 0 /\ copyOf(heap, s).res # s

\* copyOf(copyOf(s)) is the same reference as copyOf(s).
Idempotent(h, s) ==
    LET r1 == copyOf(h, s)
    IN  CanCopyOf(r1.heap, r1.res) => copyOf(r1.heap, r1.res).res = r1.res

\* C5 as stated: for all s, copyOf(copyOf(s)) is reference-identical to
\* copyOf(s).
C5_CopyOfIdempotent ==
    \A s \in Held : CanCopyOf(heap, s) => Idempotent(heap, s)

\* C5 amended: copyOf(copyOf(s)) is reference-identical to copyOf(s) for all
\* s when VERIFY_INVARIANTS is true and the host has native freeze; in the
\* other builds it is so whenever the value copyOf(s) returns is natively
\* frozen or empty.
C5_CopyOfIdempotentWhenFrozen ==
    \A s \in Held :
        CanCopyOf(heap, s) =>
            LET r1 == copyOf(heap, s)
            IN  (Dev \/ r1.heap[r1.res].frozen \/ Len(r1.heap[r1.res].elems) = 0)
                => Idempotent(heap, s)

\* A development build in which an unfrozen array of two elements is copied
\* and there is room to run copyOf on the copy.
C5_Witness ==
    /\ Dev
    /\ \E s \in Held :
          /\ ~heap[s].frozen /\ Len(heap[s].elems) = 2 /\ CanSlice(heap, s)
          /\ LET r1 == copyOf(heap, s)
             IN  r1.res # s /\ copyOf(r1.heap, r1.res).res = r1.res

\* copyOf(s) is a new array with the elements of s.
FreshDuplicate(h, s, r) ==
    /\ r.res # s /\ r.res # EMPTY_LIST
    /\ ~h[r.res].alloc /\ r.heap[r.res].alloc
    /\ Len(r.heap[r.res].elems) = Len(h[s].elems)
    /\ \A i \in 1..Len(h[s].elems) : r.heap[r.res].elems[i] = h[s].elems[i]

Unsettled(h, s) == ~Settled(h, s) /\ Len(h[s].elems) > 0 /\ CanSlice(h, s)

\* C6 as stated: for a non-settled, non-empty s, copyOf(s) is distinct from s,
\* has the same length and elements, and is marked settled.
C6_CopyIsSettledDuplicate ==
    \A s \in Held :
        Unsettled(heap, s) =>
            LET r == copyOf(heap, s)
            IN  FreshDuplicate(heap, s, r) /\ Settled(r.heap, r.res)

\* C6 amended: for a non-settled, non-empty s, copyOf(s) is distinct from s
\* and has the same length and elements; it is marked settled when
\* VERIFY_INVARIANTS is true (frozen with native freeze, tagged with the
\* sentinel without) and is left unmarked when VERIFY_INVARIANTS is false.
C6_CopyIsDuplicateSettledIfVerifying ==
    \A s \in Held :
        Unsettled(heap, s) =>
            LET r == copyOf(heap, s)
            IN  /\ FreshDuplicate(heap, s, r)
                /\ Settled(r.heap, r.res) <=> VERIFY_INVARIANTS
                /\ r.heap[r.res].frozen <=> Dev
                /\ r.heap[r.res].marker <=> (VERIFY_INVARIANTS /\ ~SUPPORTS_FROZEN)

\* An unsettled array of two different elements that can be copied, in a
\* build that verifies.
C6_Witness ==
    /\ VERIFY_INVARIANTS
    /\ \E s \in Held :
          /\ Unsettled(heap, s) /\ heap[s].elems = <<"one", "two">>
          /\ LET r == copyOf(heap, s)
             IN  r.res # s /\ r.heap[r.res].elems = <<"one", "two">>
                           /\ Settled(r.heap, r.res)

\* C7: copyOf(s) leaves s as it was (elements, length, settled or not) for
\* every s, and what the caller then does to an unsettled s does not reach
\* the value copyOf returned for a non-empty s.
C7_CopyOfLeavesArgument ==
    \A s \in Held :
        CanCopyOf(heap, s) =>
            LET r == copyOf(heap, s)
            IN  /\ r.heap[s] = heap[s]
                /\ (~Settled(heap, s) /\ Len(heap[s].elems) > 0) =>
                      \A m \in Mutations(r.heap, s) :
                          LET g == mutate(r.heap, s, m)
                          IN  g[s].elems = m /\ g[r.res] = r.heap[r.res]

\* An unsettled non-empty array is copied in a build that verifies, stays
\* unsettled and is then mutated.
C7_Witness ==
    /\ VERIFY_INVARIANTS
    /\ \E s \in Held :
          /\ Unsettled(heap, s)
          /\ LET r == copyOf(heap, s)
             IN  /\ ~Settled(r.heap, s) /\ Settled(r.heap, r.res)
                 /\ \E m \in Mutations(r.heap, s) :
                       mutate(r.heap, s, m)[s].elems # r.heap[r.res].elems

\* C8: copyOf of two distinct empty arrays returns the same reference,
\* EMPTY_LIST, both times.
C8_EmptyCopiesAreShared ==
    \A e1 \in Held : \A e2 \in Held :
        (e1 # e2 /\ Len(heap[e1].elems) = 0 /\ Len(heap[e2].elems) = 0) =>
            LET r1 == copyOf(heap, e1)
                r2 == copyOf(r1.heap, e2)
            IN  r1.res = r2.res /\ r1.res = EMPTY_LIST /\ r2.heap = heap

\* Two distinct empty arrays, neither of them EMPTY_LIST nor frozen.
C8_Witness ==
    \E e1 \in Held \ {EMPTY_LIST} : \E e2 \in Held \ {EMPTY_LIST} :
        /\ e1 # e2 /\ Len(heap[e1].elems) = 0 /\ Len(heap[e2].elems) = 0
        /\ ~Settled(heap, e1) /\ ~Settled(heap, e2)
        /\ copyOf(heap, e1).res = copyOf(heap, e2).res

\* C9: toArray(v) is a new, unsettled array with the elements of v in order;
\* v is not touched by the call nor by later mutations of the result.
C9_ToArrayIsIndependent ==
    \A v \in Held :
        CanSlice(heap, v) =>
            LET r == toArray(heap, v)
            IN  /\ r.res # v /\ ~heap[r.res].alloc
                /\ r.heap[r.res] = ArrayOf(heap[v].elems)
                /\ SameExcept(heap, r.heap, r.res)
                /\ \A m \in Mutations(r.heap, r.res) :
                      LET g == mutate(r.heap, r.res, m)
                      IN  g[r.res].elems = m /\ g[v] = heap[v]

\* A settled view of two different elements whose mutable copy is reversed.
C9_Witness ==
    \E v \in Held :
        /\ Settled(heap, v) /\ heap[v].elems = <<"one", "two">> /\ CanSlice(heap, v)
        /\ LET r == toArray(heap, v)
           IN  /\ mutate(r.heap, r.res, <<"two", "one">>)[r.res].elems = <<"two", "one">>
               /\ <<"two", "one">> \in Mutations(r.heap, r.res)

\* C10: fromLoneReference(a) returns a itself, with the same length and the
\* same element at every index, settled when VERIFY_INVARIANTS is true, and
\* allocates and changes nothing else.
C10_ClaimReturnsSameReference ==
    \A a \in Held :
        LET r == fromLoneReference(heap, a)
        IN  /\ r.res = a /\ r.threw = "none"
            /\ Len(r.heap[r.res].elems) = Len(heap[a].elems)
            /\ \A i \in 1..Len(heap[a].elems) : r.heap[r.res].elems[i] = heap[a].elems[i]
            /\ VERIFY_INVARIANTS => Settled(r.heap, r.res)
            /\ Dev => r.heap[r.res].frozen
            /\ ~VERIFY_INVARIANTS => r.heap = heap
            /\ SameExcept(heap, r.heap, a)

\* A mutable array of two different elements that gets settled in place.
C10_Witness ==
    /\ VERIFY_INVARIANTS
    /\ \E a \in Held :
          /\ ~Settled(heap, a) /\ heap[a].elems = <<"two", "one">>
          /\ LET r == fromLoneReference(heap, a)
             IN  r.res = a /\ Settled(r.heap, a) /\ r.heap[a].elems[1] = "two"

\* The builder takes appends: it carries no mark of _freeze and is not frozen.
OPEN(h, b) == h[b].alloc /\ ~Settled(h, b)

\* The call appended exactly s to b, raised nothing, left b OPEN and touched
\* no other array.
Appended(h, r, b, s) ==
    /\ r.threw = "none"
    /\ r.heap = [h EXCEPT ![b].elems = @ \o s]
    /\ OPEN(h, b)

\* C11: for an OPEN builder, every add appends its items in argument order
\* and every addAll that returns appends its source in source order, after
\* what the builder already held; build returns the builder with exactly
\* those elements, so after any sequence of such calls build yields the
\* initial contents followed by all appended items in call order.
C11_BuildYieldsAppendedInOrder ==
    LET room == Room(heap)
    IN  \A b \in Held :
            OPEN(heap, b) =>
                /\ \A items \in ItemLists :
                      Appended(heap, add(heap, b, items), b, items)
                /\ \A src \in Held :
                      LET a == addAll(heap, b, src)
                      IN  a.done => Appended(heap, a, b, heap[src].elems)
                /\ LET r == build(heap, b)
                   IN  /\ r.threw = "none" /\ r.res = b
                       /\ r.heap[b].elems = heap[b].elems
                /\ \A items \in ItemLists : \A src \in Held \ {b} :
                      (/\ items # <<>> /\ heap[src].elems # <<>>
                       /\ Len(items) + Len(heap[src].elems) <= room) =>
                          LET a1 == add(heap, b, items)
                              a2 == addAll(a1.heap, b, src)
                              r  == build(a2.heap, b)
                          IN  /\ a2.done /\ r.res = b
                              /\ r.heap[r.res].elems
                                    = (heap[b].elems \o items) \o heap[src].elems

\* An OPEN builder that already holds "one" takes add("two", "one") and then
\* addAll of a source <<"two">>, and is built into one, two, one, two.
C11_Witness ==
    \E b \in Held : \E src \in Held \ {b} :
        /\ OPEN(heap, b) /\ heap[b].elems = <<"one">> /\ heap[src].elems = <<"two">>
        /\ LET a1 == add(heap, b, <<"two", "one">>)
               a2 == addAll(a1.heap, b, src)
               r  == build(a2.heap, b)
           IN  a2.done /\ r.heap[r.res].elems = <<"one", "two", "one", "two">>

\* add(builder, x) called for each x of items in turn, from the i-th on; a
\* call that throws ends the sequence.
RECURSIVE AddEach(_, _, _, _)
AddEach(h, builder, items, i) ==
    IF i > Len(items)
    THEN [heap |-> h, res |-> undefined, threw |-> "none"]
    ELSE LET r == add(h, builder, <<items[i]>>)
         IN  IF r.threw # "none" THEN r ELSE AddEach(r.heap, builder, items, i + 1)

\* C12: for an OPEN builder and items x1..xk held by a source array, k calls
\* add(builder, xi), one call add(builder, x1, ..., xk) and one call
\* addAll(builder, source) all succeed and leave the same heap: the same
\* contents in the builder, still OPEN, and build returns equal elements.
C12_AppendFormsAgree ==
    \A b \in Held : \A src \in Held \ {b} :
        (OPEN(heap, b) /\ Len(heap[src].elems) <= Room(heap)) =>
            LET x        == heap[src].elems
                singles  == AddEach(heap, b, x, 1)
                variadic == add(heap, b, x)
                bulk     == addAll(heap, b, src)
            IN  /\ singles.threw = "none" /\ variadic.threw = "none"
                /\ bulk.threw = "none" /\ bulk.done
                /\ singles.heap = variadic.heap /\ variadic.heap = bulk.heap
                /\ bulk.heap[b].elems = heap[b].elems \o x
                /\ OPEN(bulk.heap, b)
                /\ build(singles.heap, b).heap[b].elems
                      = build(bulk.heap, b).heap[b].elems
                /\ build(variadic.heap, b).heap[b].elems
                      = build(bulk.heap, b).heap[b].elems

\* An OPEN builder holding "two" and a source of two different items: the
\* three forms all leave two, one, two in the builder.
C12_Witness ==
    \E b \in Held : \E src \in Held \ {b} :
        /\ OPEN(heap, b) /\ heap[b].elems = <<"two">>
        /\ heap[src].elems = <<"one", "two">> /\ 2 <= Room(heap)
        /\ AddEach(heap, b, <<"one", "two">>, 1).heap[b].elems = <<"two", "one", "two">>
        /\ add(heap, b, <<"one", "two">>).heap[b].elems = <<"two", "one", "two">>
        /\ addAll(heap, b, src).heap[b].elems = <<"two", "one", "two">>

\* build(b) returned b itself, with the elements b held, and changed no
\* other array.
ReturnsOwnStorage(h, b, r) ==
    /\ r.threw = "none" /\ r.res = b
    /\ r.heap[b].elems = h[b].elems
    /\ SameExcept(h, r.heap, b)

\* C13 as stated: build on an OPEN builder returns the builder's own storage
\* with the contents it held, and marks it settled.
C13_BuildReturnsSettledStorage ==
    \A b \in Held :
        OPEN(heap, b) =>
            LET r == build(heap, b)
            IN  ReturnsOwnStorage(heap, b, r) /\ Settled(r.heap, b)

\* C13 amended: build on an OPEN builder returns the builder's own storage
\* (same reference, nothing allocated) with the contents it held; the storage
\* is marked settled when VERIFY_INVARIANTS is true (frozen with native
\* freeze, tagged with the sentinel without) and is left exactly as it was
\* when VERIFY_INVARIANTS is false.
C13_BuildReturnsStorageSettledIfVerifying ==
    \A b \in Held :
        OPEN(heap, b) =>
            LET r == build(heap, b)
            IN  /\ ReturnsOwnStorage(heap, b, r)
                /\ Settled(r.heap, b) <=> VERIFY_INVARIANTS
                /\ r.heap[b].frozen <=> Dev
                /\ r.heap[b].marker <=> (VERIFY_INVARIANTS /\ ~SUPPORTS_FROZEN)
                /\ ~VERIFY_INVARIANTS => r.heap = heap

\* An OPEN builder holding two, one in a build that verifies: build returns
\* it, settled, with the same elements.
C13_Witness ==
    /\ VERIFY_INVARIANTS
    /\ \E b \in Held :
          /\ OPEN(heap, b) /\ heap[b].elems = <<"two", "one">>
          /\ LET r == build(heap, b)
             IN  r.res = b /\ Settled(r.heap, b) /\ r.heap[b].elems = <<"two", "one">>

\* C14: newBuilderFromImmutableList(view) returns a newly allocated OPEN
\* builder holding the elements of view in order; add, addAll (from view,
\* from any other array) and build on it succeed as on a new builder, and
\* none of these calls changes the elements, the length or the mark of view.
C14_BuilderFromViewIsIndependent ==
    \A v \in Held :
        CanSlice(heap, v) =>
            LET n == newBuilderFromImmutableList(heap, v)
                b == n.res
            IN  /\ n.threw = "none" /\ b # v /\ ~heap[b].alloc
                /\ n.heap[b] = ArrayOf(heap[v].elems)
                /\ OPEN(n.heap, b)
                /\ SameExcept(heap, n.heap, b)
                /\ \A items \in ItemLists :
                      LET a == add(n.heap, b, items)
                      IN  Appended(n.heap, a, b, items) /\ a.heap[v] = heap[v]
                /\ \A src \in Allocated(n.heap) :
                      LET a == addAll(n.heap, b, src)
                      IN  a.done => /\ Appended(n.heap, a, b, n.heap[src].elems)
                                    /\ a.heap[v] = heap[v]
                /\ LET r == build(n.heap, b)
                   IN  /\ r.threw = "none" /\ r.res = b
                       /\ r.heap[b].elems = heap[v].elems
                       /\ r.heap[v] = heap[v]

\* A settled view of two elements seeds a builder that takes one more
\* element and is built, while the view keeps its two elements and its mark.
C14_Witness ==
    /\ VERIFY_INVARIANTS
    /\ \E v \in Held :
          /\ Settled(heap, v) /\ heap[v].elems = <<"one", "two">> /\ CanSlice(heap, v)
          /\ LET n == newBuilderFromImmutableList(heap, v)
                 a == add(n.heap, n.res, <<"one">>)
                 r == build(a.heap, n.res)
             IN  /\ a.threw = "none" /\ r.threw = "none"
                 /\ r.heap[r.res].elems = <<"one", "two", "one">>
                 /\ r.heap[v] = heap[v]

\* Builders are created OPEN.
StartsOpen(h) ==
    /\ CanAlloc(h, 0) => LET n == newBuilder(h) IN OPEN(n.heap, n.res)
    /\ \A v \in Allocated(h) :
          CanSlice(h, v) =>
              LET n == newBuilderFromImmutableList(h, v) IN OPEN(n.heap, n.res)

\* The calls that are not handed b leave an OPEN b OPEN, and so do add and
\* addAll on b.
OthersKeepOpen(h, b) ==
    /\ \A items \in ItemLists : OPEN(add(h, b, items).heap, b)
    /\ \A src \in Allocated(h) :
          OPEN(addAll(h, b, src).heap, b) /\ OPEN(addAll(h, src, b).heap, b)
    /\ \A a \in Allocated(h) :
          /\ CanCopyOf(h, a) => OPEN(copyOf(h, a).heap, b)
          /\ CanSlice(h, a) => OPEN(toArray(h, a).heap, b)
          /\ CanSlice(h, a) => OPEN(newBuilderFromImmutableList(h, a).heap, b)
          /\ a # b => OPEN(build(h, a).heap, b)
          /\ a # b => OPEN(fromLoneReference(h, a).heap, b)
    /\ CanAlloc(h, 0) => OPEN(newBuilder(h).heap, b)

\* C15 as stated: every builder starts OPEN and build on that builder is the
\* only operation of the API that moves it to SETTLED.
C15_OnlyBuildSettles ==
    /\ StartsOpen(heap)
    /\ \A b \in Held :
          OPEN(heap, b) =>
              /\ OthersKeepOpen(heap, b)
              /\ OPEN(fromLoneReference(heap, b).heap, b)

\* C15 amended: every builder starts OPEN; add, addAll, copyOf, toArray,
\* newBuilder, newBuilderFromImmutableList and calls on other references keep
\* an OPEN builder OPEN; build and fromLoneReference on its reference settle
\* it when VERIFY_INVARIANTS is true and leave it OPEN when it is false; and
\* no step of the library or the caller takes the mark from a settled array.
C15_BuildOrClaimSettlesForGood ==
    /\ [](/\ StartsOpen(heap)
          /\ \A b \in Held :
                OPEN(heap, b) =>
                    /\ OthersKeepOpen(heap, b)
                    /\ Settled(build(heap, b).heap, b) <=> VERIFY_INVARIANTS
                    /\ Settled(fromLoneReference(heap, b).heap, b) <=> VERIFY_INVARIANTS)
    /\ [][SettledStays]_vars

\* An OPEN builder with contents, next to a settled one, in a build that
\* verifies: build settles the first, and so does fromLoneReference.
C15_Witness ==
    /\ VERIFY_INVARIANTS
    /\ \E b \in Held : \E c \in Held \ {EMPTY_LIST} :
          /\ OPEN(heap, b) /\ Len(heap[b].elems) >= 1
          /\ Settled(heap, c) /\ Len(heap[c].elems) >= 1
          /\ Settled(build(heap, b).heap, b)
          /\ Settled(fromLoneReference(heap, b).heap, b)
          /\ OPEN(add(heap, b, <<"one">>).heap, b)

\* C16: with VERIFY_INVARIANTS false, build and fromLoneReference return
\* their argument and leave it neither frozen nor tagged; add, addAll and
\* build never raise the already-built error; and on a builder that build
\* has returned, add, addAll and a second build go on against the same
\* storage, so the value the first build returned holds the appended items.
C16_UnverifiedBuildIsSilent ==
    ~VERIFY_INVARIANTS =>
        \A b \in Held :
            LET r == build(heap, b)
            IN  /\ r = [heap |-> heap, res |-> b, threw |-> "none"]
                /\ fromLoneReference(heap, b) = r
                /\ \A items \in ItemLists : add(r.heap, b, items).threw # "AlreadyBuilt"
                /\ \A src \in Held : addAll(r.heap, b, src).threw # "AlreadyBuilt"
                /\ ~heap[b].frozen =>
                      /\ \A items \in ItemLists :
                            LET a == add(r.heap, b, items)
                            IN  /\ a.threw = "none"
                                /\ a.heap[r.res].elems = heap[b].elems \o items
                                /\ build(a.heap, b)
                                      = [heap |-> a.heap, res |-> r.res, threw |-> "none"]
                      /\ \A src \in Held :
                            LET a == addAll(r.heap, b, src)
                            IN  a.done =>
                                  /\ a.threw = "none"
                                  /\ a.heap[r.res].elems = heap[b].elems \o heap[src].elems

\* Without verification a builder holding "one" is built and then takes
\* "two": the value build returned now reads one, two.
C16_Witness ==
    /\ ~VERIFY_INVARIANTS
    /\ \E b \in Held \ {EMPTY_LIST} :
          /\ heap[b].elems = <<"one">> /\ ~heap[b].frozen
          /\ LET r == build(heap, b)
                 a == add(r.heap, b, <<"two">>)
             IN  /\ r.res = b /\ ~Settled(r.heap, r.res)
                 /\ a.threw = "none" /\ a.heap[r.res].elems = <<"one", "two">>

\* C17: with verification enabled, once fromLoneReference has settled an
\* array every add (with any number of items) and every addAll (from any
\* source, the array itself included) on that reference raises the
\* already-built error and leaves the array, and the whole heap, unchanged.
C17_ClaimedRejectsAppend ==
    VERIFY_INVARIANTS =>
        \A a \in Held :
            LET f == fromLoneReference(heap, a)
            IN  /\ Settled(f.heap, a)
                /\ f.heap[a].elems = heap[a].elems
                /\ \A items \in ItemLists :
                      LET r == add(f.heap, f.res, items)
                      IN  r.threw = "AlreadyBuilt" /\ r.heap = f.heap
                /\ \A src \in Held :
                      LET r == addAll(f.heap, f.res, src)
                      IN  r.threw = "AlreadyBuilt" /\ r.done /\ r.heap = f.heap

\* On a host without native freeze an unmarked array of two elements is
\* claimed; add and addAll on it then raise and it keeps its two elements.
C17_Witness ==
    /\ VERIFY_INVARIANTS /\ ~SUPPORTS_FROZEN
    /\ \E a \in Held :
          /\ OPEN(heap, a) /\ heap[a].elems = <<"one", "two">>
          /\ add(heap, a, <<"one">>).threw = "none"
          /\ LET f == fromLoneReference(heap, a)
             IN  /\ add(f.heap, a, <<"one">>).threw = "AlreadyBuilt"
                 /\ addAll(f.heap, a, a).threw = "AlreadyBuilt"
                 /\ add(f.heap, a, <<"one">>).heap[a].elems = <<"one", "two">>

\* C18 as stated: every call runs to completion, so no reachable state has a
\* call of addAll still running.  TLC reaches pc = "addAll": in
\* addAll(b, b) with an OPEN, non-empty b every turn of the loop pushes one
\* element onto the array the iterator walks, so the iterator's position
\* never reaches the length.
C18_EveryCallCompletes == pc = "idle"

\* C19 as stated: with verification enabled no call of the API adds an
\* element to the canonical empty value, so it has length 0 in every state,
\* and copyOf never returns it for a non-empty input.  TLC finds a build with
\* VERIFY_INVARIANTS on a host without native freeze in which EMPTY_LIST,
\* once copyOf has returned it, takes the items of add: it is a plain array
\* that carries no marker.
C19_CanonicalEmptyStaysEmpty ==
    /\ (VERIFY_INVARIANTS /\ escaped /\ heap[EMPTY_LIST].elems = <<>>) =>
          /\ \A items \in ItemLists :
                add(heap, EMPTY_LIST, items).heap[EMPTY_LIST].elems = <<>>
          /\ \A src \in Held :
                addAll(heap, EMPTY_LIST, src).heap[EMPTY_LIST].elems = <<>>
    /\ \A a \in Held :
          (Len(heap[a].elems) > 0 /\ CanCopyOf(heap, a)) =>
              copyOf(heap, a).res # EMPTY_LIST

\* C20: on an OPEN builder, add without items and addAll with an empty
\* source (another array, EMPTY_LIST, or the empty builder itself) raise
\* nothing and leave the whole heap as it was: same contents, same length,
\* still OPEN.
C20_AppendingNothingChangesNothing ==
    \A b \in Held :
        OPEN(heap, b) =>
            /\ add(heap, b, <<>>) = [heap |-> heap, res |-> undefined, threw |-> "none"]
            /\ \A src \in Held :
                  heap[src].elems = <<>> =>
                      addAll(heap, b, src)
                          = [heap |-> heap, res |-> undefined,
                             threw |-> "none", done |-> TRUE]

\* An OPEN builder holding one, two, next to an empty source that is not the
\* builder: neither form of the empty append changes it.
C20_Witness ==
    \E b \in Held : \E src \in Held \ {b} :
        /\ OPEN(heap, b) /\ heap[b].elems = <<"one", "two">>
        /\ heap[src].elems = <<>>
        /\ add(heap, b, <<>>).heap[b].elems = <<"one", "two">>
        /\ addAll(heap, b, src).heap[b].elems = <<"one", "two">>
        /\ OPEN(addAll(heap, b, src).heap, b)

\* C21: newBuilder() returns a newly allocated, empty builder in state OPEN
\* and changes nothing else; build on it, with no append in between, returns
\* it with length 0.
C21_NewBuilderIsEmptyAndOpen ==
    CanAlloc(heap, 0) =>
        LET n == newBuilder(heap)
            r == build(n.heap, n.res)
        IN  /\ n.threw = "none" /\ n.res \in Refs /\ ~heap[n.res].alloc
            /\ n.heap = [heap EXCEPT ![n.res] = ArrayOf(<<>>)]
            /\ OPEN(n.heap, n.res)
            /\ r.threw = "none" /\ r.res = n.res
            /\ Len(r.heap[r.res].elems) = 0

\* Next to a non-empty array and to the canonical empty list the caller
\* holds an empty OPEN builder, and a further one can be created and built.
C21_Witness ==
    /\ CanAlloc(heap, 0) /\ escaped
    /\ \E a \in Held : Len(heap[a].elems) >= 1
    /\ \E b \in Held \ {EMPTY_LIST} :
          /\ OPEN(heap, b) /\ heap[b].elems = <<>>
          /\ Len(build(heap, b).heap[b].elems) = 0
    /\ LET n == newBuilder(heap)
       IN  n.res # EMPTY_LIST /\ build(n.heap, n.res).res = n.res

\* The array a carries the sentinel marker with the elements it had in h, and
\* is taken as settled by add, addAll, build and copyOf.
RecognisedAsSettled(h, g, a) ==
    /\ HasMarker(g, a) /\ g[a].elems = h[a].elems
    /\ \A items \in ItemLists : add(g, a, items).threw = "AlreadyBuilt"
    /\ \A src \in Allocated(g) : addAll(g, a, src).threw = "AlreadyBuilt"
    /\ build(g, a).threw = "AlreadyBuilt"
    /\ (Len(g[a].elems) > 0 /\ CanSlice(g, a)) =>
          copyOf(g, a) = [heap |-> g, res |-> a, threw |-> "none"]

\* C22 as stated: with VERIFY_INVARIANTS on a host without native freeze, a
\* value settled by fromLoneReference or by build carries the sentinel
\* marker, keeps its elements and its length, makes add, addAll and build
\* raise the already-built error, and is returned by copyOf itself, without
\* a copy.  TLC finds a tagged, non-empty value that copyOf duplicates:
\* copyOf asks Object.isFrozen only and never looks at the marker.
C22_SentinelIsRecognisedEverywhere ==
    (VERIFY_INVARIANTS /\ ~SUPPORTS_FROZEN) =>
        \A a \in Held :
            OPEN(heap, a) =>
                /\ RecognisedAsSettled(heap, fromLoneReference(heap, a).heap, a)
                /\ RecognisedAsSettled(heap, build(heap, a).heap, a)

C24_RejectedCallChangesNothing ==
    \A b \in Held :
        /\ \A items \in ItemLists :
              LET r == add(heap, b, items)
              IN  r.threw = "AlreadyBuilt" => r.heap = heap /\ r.res = undefined
        /\ \A src \in Held :
              LET r == addAll(heap, b, src)
              IN  r.threw = "AlreadyBuilt" =>
                      r.heap = heap /\ r.res = undefined /\ r.done
        /\ LET r == build(heap, b)
           IN  r.threw = "AlreadyBuilt" => r.heap = heap /\ r.res = undefined

\* A value that carries only the sentinel marker, so that push would still
\* go through, holds "one"; add, addAll from a non-empty source and build
\* on it raise and it still holds "one".
C24_Witness ==
    \E b \in Held : \E src \in Held \ {b} :
        /\ heap[b].marker /\ ~heap[b].frozen /\ heap[b].elems = <<"one">>
        /\ Len(heap[src].elems) >= 1
        /\ add(heap, b, <<"two">>).threw = "AlreadyBuilt"
        /\ addAll(heap, b, src).threw = "AlreadyBuilt"
        /\ build(heap, b).threw = "AlreadyBuilt"
        /\ add(heap, b, <<"two">>).heap[b].elems = <<"one">>
        /\ addAll(heap, b, src).heap = heap

\* Heap g differs from h in the array of b at most.
OnlyChanges(h, g, b) == [g EXCEPT ![b] = h[b]] = h

\* The call allocated the array it returns and touched no array of h.
AllocatesApart(h, r) ==
    /\ r.res \in Refs /\ ~h[r.res].alloc /\ r.heap[r.res].alloc
    /\ SameExcept(h, r.heap, r.res)

\* C25: newBuilder, newBuilderFromImmutableList, toArray and the copy branch
\* of copyOf return an array that did not exist before the call and leave
\* every existing array as it was, so two such calls never share storage;
\* add, addAll and build on a builder change that builder's array only.
C25_StoragesAreIndependent ==
    /\ CanAlloc(heap, 0) => AllocatesApart(heap, newBuilder(heap))
    /\ 2 <= Room(heap) =>
          LET n1 == newBuilder(heap)
              n2 == newBuilder(n1.heap)
          IN  n1.res # n2.res /\ AllocatesApart(n1.heap, n2)
    /\ \A a \in Held :
          CanSlice(heap, a) =>
              /\ AllocatesApart(heap, newBuilderFromImmutableList(heap, a))
              /\ AllocatesApart(heap, toArray(heap, a))
              /\ CopyOfAllocates(heap, a) => AllocatesApart(heap, copyOf(heap, a))
    /\ \A b \in Held :
          /\ \A items \in ItemLists : OnlyChanges(heap, add(heap, b, items).heap, b)
          /\ \A src \in Held : OnlyChanges(heap, addAll(heap, b, src).heap, b)
          /\ OnlyChanges(heap, build(heap, b).heap, b)

\* Two OPEN builders with contents and a settled value: an append to one
\* builder and its build leave the other builder and the value alone, and a
\* builder seeded from the value gets storage of its own.
C25_Witness ==
    \E b \in Held : \E c \in Held \ {b} : \E v \in Held \ {b, c} :
        /\ OPEN(heap, b) /\ OPEN(heap, c) /\ Settled(heap, v)
        /\ Len(heap[b].elems) >= 1 /\ Len(heap[c].elems) >= 1
        /\ LET a == add(heap, b, <<"one">>)
               r == build(a.heap, b)
           IN  /\ a.heap[b] # heap[b]
               /\ r.heap[c] = heap[c] /\ r.heap[v] = heap[v]
        /\ CanSlice(heap, v)
        /\ newBuilderFromImmutableList(heap, v).res \notin {b, c, v}

====
